---- MODULE Spec2Model ----
(***************************************************************************)
(* Model of the indicator engine of mse-web (src/utils/technical_analysis). *)
(* A price series is a finite sequence of numbers; the indicator functions *)
(* are translated operator by operator from the pandas expressions of the  *)
(* source.  Numbers are modelled exactly: a value is the "no value" marker *)
(* (NaN), an infinity, or a finite number  s*m/d + c*sqrt(rm/rd)  kept in   *)
(* sign-magnitude form so that IEEE signed zeros are kept (they decide the *)
(* sign of x/0).  The sign s is 1 or -1; on a zero or an infinity it may   *)
(* also be 0, which stands for "either sign, depending on the installed    *)
(* pandas" (see RollingMeanAt).  Rounding of double precision is not       *)
(* modelled.                                                               *)
(*                                                                         *)
(* The second half models the collaborators of the engine: the data source *)
(* selection of src/app.py, the CSV loader (src/utils/data_loader.py) and  *)
(* the storage layer (src/database).  A table is the sequence of its rows  *)
(* in insertion order (the row id is the position), a date is a day number *)
(* and a frame is the sequence of the dates of its rows.                   *)
(***************************************************************************)
EXTENDS Integers, Sequences, FiniteSets, TLC

\* ------------------------------------------------------------------ bounds
MaxPrice == 2
MaxLen == 4
MaxWindow == 3

Prices == 1..MaxPrice
Windows == 1..MaxWindow
Spreads == {0, 1}
Spans == {1, 2}
StdMultipliers == {1, 2}

\* The two concrete scenario series of the documentation.
ScenarioClose == <<10, 11, 12, 11, 10, 9, 10, 11, 12, 13>>
ConstantClose == [i \in 1..20 |-> 5]
\* A series whose day-to-day moves exceed the daily range.
GapClose == <<10, 13, 9>>

\* Bounds of the data layer: day numbers and rows per file.
MaxDate == 3
MaxRows == 3

Dates == 1..MaxDate
Symbols == {"AAA", "BBB"}

\* close, high, low: the price columns the caller passes to the indicator
\* functions; op, params, out, raised: the call that has just returned.
\* History: loaded is a copy of the price columns taken when the data were
\* loaded, earlier tells whether some call has already been completed.
VARIABLES close, high, low, op, params, out, raised, loaded, earlier

\* db: the tables stocks, stock_prices and saved_analyses; csv: the CSV file
\* at hand (a sample file or an upload); app: the frame the script has loaded
\* and the date-filtered frame it hands to the indicator functions; ret: what
\* the last collaborator call returned; sess: the open database sessions.
VARIABLES db, csv, app, ret, sess

indicator_vars == <<close, high, low, op, params, out, raised, loaded, earlier>>
data_vars == <<db, csv, app, ret, sess>>
vars == <<close, high, low, op, params, out, raised, loaded, earlier,
          db, csv, app, ret, sess>>

\* A frame (None when not loaded) and a CSV file.
NoFrame == [loaded |-> FALSE, dates |-> <<>>]
Frame(ds) == [loaded |-> TRUE, dates |-> ds]

EmptyDb == [stocks |-> <<>>, stock_prices |-> <<>>, saved_analyses |-> <<>>]
NoCsv == [readable |-> FALSE, has_date |-> FALSE, has_prices |-> FALSE, dates |-> <<>>]
NoApp == [data |-> NoFrame, filtered |-> NoFrame, crashed |-> FALSE]
NoReturn == [call |-> "none"]

\* The data layer is not in use while the indicator functions are exercised,
\* and the other way round.
DataLayerIdle ==
    /\ db = EmptyDb
    /\ csv = NoCsv
    /\ app = NoApp
    /\ ret = NoReturn
    /\ sess = <<>>

\* ------------------------------------------------------- float64 arithmetic
RECURSIVE GCD(_, _)
GCD(a, b) == IF b = 0 THEN a ELSE GCD(b, a % b)

Abs(n) == IF n < 0 THEN -n ELSE n
Sgn(n) == IF n < 0 THEN -1 ELSE 1

\* Integer square root, and whether a natural number is a perfect square.
ISqrt(n) == CHOOSE r \in 0..n : r * r <= n /\ (r + 1) * (r + 1) > n
IsSquare(n) == ISqrt(n) * ISqrt(n) = n

NaN == [k |-> "nan", s |-> 1, m |-> 0, d |-> 1, c |-> 0, rm |-> 0, rd |-> 1]
Inf(sg) == [k |-> "inf", s |-> sg, m |-> 0, d |-> 1, c |-> 0, rm |-> 0, rd |-> 1]
\* A Python exception in place of a value (numpy never produces one).
Raise == [k |-> "raise", s |-> 1, m |-> 0, d |-> 1, c |-> 0, rm |-> 0, rd |-> 1]
\* A finite value outside the represented form (never produced by the code).
Unrep == [k |-> "unrep", s |-> 1, m |-> 0, d |-> 1, c |-> 0, rm |-> 0, rd |-> 1]

\* The rational sg*mm/dd in lowest terms (dd > 0, mm >= 0).
Fin(sg, mm, dd) ==
    LET g == GCD(mm, dd)
    IN  [k |-> "fin", s |-> sg, m |-> mm \div g, d |-> dd \div g,
         c |-> 0, rm |-> 0, rd |-> 1]

Num(n) == Fin(Sgn(n), Abs(n), 1)

\* x plus cc*sqrt(nn/dd); a rational square root is folded into the rational part.
RECURSIVE Add(_, _)
WithSurd(x, cc, nn, dd) ==
    LET g == GCD(nn, dd)
        a == nn \div g
        b == dd \div g
    IN  IF cc = 0 \/ nn = 0 THEN x
        ELSE IF IsSquare(a) /\ IsSquare(b)
             THEN Add(x, Fin(cc, ISqrt(a), ISqrt(b)))
             ELSE [x EXCEPT !.c = cc, !.rm = a, !.rd = b]

IsNaN(x) == x.k = "nan"
IsFinite(x) == x.k = "fin"
IsRational(x) == x.k = "fin" /\ x.c = 0
IsZero(x) == x.k = "fin" /\ x.m = 0 /\ x.c = 0

Neg(x) ==
    IF x.k \in {"nan", "raise", "unrep"} THEN x
    ELSE [x EXCEPT !.s = -x.s, !.c = -x.c]

Add(x, y) ==
    IF x.k = "raise" \/ y.k = "raise" THEN Raise
    ELSE IF x.k = "unrep" \/ y.k = "unrep" THEN Unrep
    ELSE IF x.k = "nan" \/ y.k = "nan" THEN NaN
    ELSE IF x.k = "inf"
         THEN (IF y.k # "inf" THEN x
               ELSE IF x.s = 0 \/ y.s = 0 THEN Unrep
               ELSE IF y.s # x.s THEN NaN ELSE x)
    ELSE IF y.k = "inf" THEN y
    ELSE LET g == GCD(x.d, y.d)
             n == x.s * x.m * (y.d \div g) + y.s * y.m * (x.d \div g)
             rat == IF n = 0
                    THEN Fin(IF x.m # 0 \/ x.s = 1 \/ y.s = 1 THEN 1
                             ELSE IF x.s = -1 /\ y.s = -1 THEN -1 ELSE 0, 0, 1)
                    ELSE Fin(Sgn(n), Abs(n), x.d * (y.d \div g))
         IN  IF x.c = 0 THEN WithSurd(rat, y.c, y.rm, y.rd)
             ELSE IF y.c = 0 THEN WithSurd(rat, x.c, x.rm, x.rd)
             ELSE IF x.rm = y.rm /\ x.rd = y.rd
                  THEN (IF x.c = y.c THEN WithSurd(rat, x.c, 4 * x.rm, x.rd) ELSE rat)
                  ELSE Unrep

Sub(x, y) == Add(x, Neg(y))

Mul(x, y) ==
    IF x.k = "raise" \/ y.k = "raise" THEN Raise
    ELSE IF x.k = "unrep" \/ y.k = "unrep" THEN Unrep
    ELSE IF x.k = "nan" \/ y.k = "nan" THEN NaN
    ELSE IF x.k = "inf" \/ y.k = "inf"
         THEN (IF IsZero(x) \/ IsZero(y) THEN NaN
               ELSE IF x.c # 0 \/ y.c # 0 THEN Unrep
               ELSE Inf(x.s * y.s))
    ELSE IF x.c # 0 /\ y.c # 0 THEN Unrep
    ELSE LET g1 == GCD(x.m, y.d)
             g2 == GCD(y.m, x.d)
             rat == Fin(x.s * y.s, (x.m \div g1) * (y.m \div g2),
                        (x.d \div g2) * (y.d \div g1))
         IN  IF x.c # 0
             THEN WithSurd(rat, x.c * y.s, x.rm * y.m * y.m, x.rd * y.d * y.d)
             ELSE WithSurd(rat, y.c * x.s, y.rm * x.m * x.m, y.rd * x.d * x.d)

\* Mutant: Python scalar division, which raises ZeroDivisionError.
Div_ZeroDivisionError(x, y) ==
    IF y.k = "fin" /\ y.m = 0 /\ y.c = 0 /\ x.k \notin {"nan", "raise", "unrep"}
    THEN Raise
    ELSE IF x.k = "nan" \/ y.k = "nan" THEN NaN
    ELSE IF y.k = "inf" THEN (IF x.k = "inf" THEN NaN ELSE Fin(x.s * y.s, 0, 1))
    ELSE IF x.k = "inf" THEN Inf(x.s * y.s)
    ELSE Mul(x, Fin(y.s, y.d, y.m))

\* numpy true division of float64: x/0 is an infinity or NaN, never an exception.
Div(x, y) ==
    IF x.k = "raise" \/ y.k = "raise" THEN Raise
    ELSE IF x.k = "unrep" \/ y.k = "unrep" THEN Unrep
    ELSE IF x.k = "nan" \/ y.k = "nan" THEN NaN
    ELSE IF y.c # 0 THEN Unrep
    ELSE IF y.k = "inf"
         THEN (IF x.k = "inf" THEN NaN ELSE Fin(x.s * y.s, 0, 1))
    ELSE IF x.k = "inf" THEN Inf(x.s * y.s)
    ELSE IF y.m = 0
         THEN (IF IsZero(x) THEN NaN
               ELSE IF x.m = 0 THEN Inf(x.c * y.s)
               ELSE Inf(x.s * y.s))
    ELSE Mul(x, Fin(y.s, y.d, y.m))

\* x > y and x < y on float64: False whenever a NaN is involved.  (The code
\* compares finite values and NaN only.)
Gt(x, y) ==
    /\ x.k \in {"fin", "inf"} /\ y.k \in {"fin", "inf"}
    /\ IF x.k = "inf" THEN x.s = 1 /\ ~(y.k = "inf" /\ y.s # -1)
       ELSE IF y.k = "inf" THEN y.s = -1
       ELSE x.s * x.m * y.d > y.s * y.m * x.d

Lt(x, y) == Gt(y, x)

AbsVal(x) ==
    IF x.k \in {"nan", "raise", "unrep"} THEN x
    ELSE IF x.c # 0 THEN Unrep
    ELSE [x EXCEPT !.s = 1]

\* Square root of a finite rational (NaN for a negative one).
Sqrt(x) ==
    IF x.k \in {"nan", "raise", "unrep"} THEN x
    ELSE IF x.k = "inf" THEN (IF x.s = 1 THEN x ELSE IF x.s = -1 THEN NaN ELSE Unrep)
    ELSE IF x.c # 0 THEN Unrep
    ELSE IF x.m = 0 THEN x
    ELSE IF x.s = -1 THEN NaN
    ELSE WithSurd(Fin(1, 0, 1), 1, x.m, x.d)

\* ------------------------------------------------------------- pandas Series
ToSeries(xs) == [i \in 1..Len(xs) |-> Num(xs[i])]

\* Series.diff(): first position has no predecessor.
Diff(x) == [i \in 1..Len(x) |-> IF i = 1 THEN NaN ELSE Sub(x[i], x[i - 1])]

\* Series.shift(): every value moves one position later.
Shift(x) == [i \in 1..Len(x) |-> IF i = 1 THEN NaN ELSE x[i - 1]]

RECURSIVE SumRange(_, _, _)
SumRange(x, lo, hi) ==
    IF lo > hi THEN Fin(1, 0, 1) ELSE Add(SumRange(x, lo, hi - 1), x[hi])

\* Mutant: rolling(window, center=True), the window is centred on the position.
RollingMeanAt_Centered(x, window, i) ==
    LET off == (window - 1) \div 2
        lo == i + off - window + 1
        hi == i + off
    IN  IF lo < 1 \/ hi > Len(x) THEN NaN
        ELSE IF \E j \in lo..hi : x[j].k # "fin" THEN NaN
        ELSE Div(SumRange(x, lo, hi), Num(window))

\* Mutant: min_periods = 1, a partial window already yields a mean.
RollingMeanAt_MinPeriods1(x, window, i) ==
    LET lo == IF i < window THEN 1 ELSE i - window + 1
    IN  IF \E j \in lo..i : x[j].k # "fin" THEN NaN
        ELSE Div(SumRange(x, lo, i), Num(i - lo + 1))

\* Series.rolling(window).mean() with min_periods = window: the mean of the
\* last `window` values once that many exist and none is NaN.  When every
\* value of the window is a zero, older pandas returns sum/count = +0.0 and
\* newer pandas returns the last value itself, which may be -0.0: the zero's
\* sign then depends on the installed pandas (s = 0).
RollingMeanAt(x, window, i) ==
    IF i < window \/ \E j \in (i - window + 1)..i : x[j].k # "fin" THEN NaN
    ELSE LET mean == Div(SumRange(x, i - window + 1, i), Num(window))
         IN  IF (\A j \in (i - window + 1)..i : IsZero(x[j])) /\ x[i].s # 1
             THEN Fin(0, 0, 1)
             ELSE mean

RollingMean(x, window) == [i \in 1..Len(x) |-> RollingMeanAt(x, window, i)]

\* Series.rolling(window).std(): sample standard deviation (ddof = 1), defined
\* only when the window is full and holds more than ddof observations.
RECURSIVE SumSqDev(_, _, _, _)
SumSqDev(x, mean, lo, hi) ==
    IF lo > hi THEN Fin(1, 0, 1)
    ELSE Add(SumSqDev(x, mean, lo, hi - 1),
             Mul(Sub(x[hi], mean), Sub(x[hi], mean)))

\* Mutant: population standard deviation (ddof = 0).
RollingStdAt_Population(x, window, i) ==
    IF i < window \/ \E j \in (i - window + 1)..i : x[j].k # "fin" THEN NaN
    ELSE LET mean == Div(SumRange(x, i - window + 1, i), Num(window))
         IN  Sqrt(Div(SumSqDev(x, mean, i - window + 1, i), Num(window)))

RollingStdAt(x, window, i) ==
    IF i < window \/ \E j \in (i - window + 1)..i : x[j].k # "fin" THEN NaN
    ELSE IF ~(window > 1) THEN NaN
    ELSE LET mean == Div(SumRange(x, i - window + 1, i), Num(window))
         IN  Sqrt(Div(SumSqDev(x, mean, i - window + 1, i), Num(window - 1)))

RollingStd(x, window) == [i \in 1..Len(x) |-> RollingStdAt(x, window, i)]

\* Mutant: Wilder's smoothing factor alpha = 1 / span.
RECURSIVE EwmMeanAt_AlphaOverSpan(_, _, _)
EwmMeanAt_AlphaOverSpan(x, span, i) ==
    LET alpha == Div(Num(1), Num(span))
    IN  IF i = 1 THEN x[1]
        ELSE Add(Mul(Sub(Num(1), alpha), EwmMeanAt_AlphaOverSpan(x, span, i - 1)),
                 Mul(alpha, x[i]))

\* Series.ewm(span, adjust=False).mean(): y[0] = x[0],
\* y[i] = (1 - alpha) * y[i-1] + alpha * x[i] with alpha = 2 / (span + 1).
RECURSIVE EwmMeanAt(_, _, _)
EwmMeanAt(x, span, i) ==
    LET alpha == Div(Num(2), Num(span + 1))
    IN  IF i = 1 THEN x[1]
        ELSE Add(Mul(Sub(Num(1), alpha), EwmMeanAt(x, span, i - 1)),
                 Mul(alpha, x[i]))

\* Mutant: min_periods = span, the first span-1 positions are NaN.
EwmMean_MinPeriodsSpan(x, span) ==
    [i \in 1..Len(x) |-> IF i < span THEN NaN ELSE EwmMeanAt(x, span, i)]

EwmMean(x, span) == [i \in 1..Len(x) |-> EwmMeanAt(x, span, i)]

\* Mutant: max with skipna=False, a NaN in the row makes the maximum NaN.
Max2_PropagatesNaN(a, b) ==
    IF IsNaN(a) \/ IsNaN(b) THEN NaN ELSE IF Gt(b, a) THEN b ELSE a

\* DataFrame.max(axis=1): the largest of the values that are not NaN.
Max2(a, b) == IF IsNaN(a) THEN b ELSE IF IsNaN(b) THEN a ELSE IF Gt(b, a) THEN b ELSE a
RowMax(a, b, c) == Max2(Max2(a, b), c)

\* ------------------------------------------------------ indicator functions
\* Mutant: the window is one position too long.
calculate_moving_average_LongWindow(data, window) == RollingMean(data, window + 1)

calculate_moving_average(data, window) == RollingMean(data, window)

\* The intermediate series of calculate_rsi, under the names of the source.
rsi_delta(data) == Diff(data)

\* Mutant: the undefined first difference stays undefined in gain.
rsi_gain_KeepsNaN(data) ==
    LET delta == rsi_delta(data)
    IN  [i \in 1..Len(data) |->
            IF IsNaN(delta[i]) THEN NaN
            ELSE IF Gt(delta[i], Num(0)) THEN delta[i] ELSE Num(0)]

rsi_gain(data) ==
    LET delta == rsi_delta(data)
    IN  [i \in 1..Len(data) |-> IF Gt(delta[i], Num(0)) THEN delta[i] ELSE Num(0)]

\* Mutant: the negation is forgotten, losses stay negative.
rsi_loss_NotNegated(data) ==
    LET delta == rsi_delta(data)
    IN  [i \in 1..Len(data) |-> IF Lt(delta[i], Num(0)) THEN delta[i] ELSE Num(0)]

rsi_loss(data) ==
    LET delta == rsi_delta(data)
    IN  [i \in 1..Len(data) |->
            Neg(IF Lt(delta[i], Num(0)) THEN delta[i] ELSE Num(0))]

\* Mutant: Wilder's exponential smoothing in place of the rolling mean.
rsi_avg_gain_Ewm(data, window) == EwmMean(rsi_gain(data), window)

rsi_avg_gain(data, window) == RollingMean(rsi_gain(data), window)
rsi_avg_loss(data, window) == RollingMean(rsi_loss(data), window)

\* Mutant: a zero average loss is masked out before the division.
rsi_rs_ZeroLossMasked(data, window) ==
    LET avg_gain == rsi_avg_gain(data, window)
        avg_loss == rsi_avg_loss(data, window)
    IN  [i \in 1..Len(data) |->
            IF IsZero(avg_loss[i]) THEN NaN ELSE Div(avg_gain[i], avg_loss[i])]

rsi_rs(data, window) ==
    LET avg_gain == rsi_avg_gain(data, window)
        avg_loss == rsi_avg_loss(data, window)
    IN  [i \in 1..Len(data) |-> Div(avg_gain[i], avg_loss[i])]

\* Mutant: undefined positions after the warm-up are filled with the neutral 50.
calculate_rsi_Fill50(data, window) ==
    LET rs == rsi_rs(data, window)
        rsi == [i \in 1..Len(data) |->
                   Sub(Num(100), Div(Num(100), Add(Num(1), rs[i])))]
    IN  [i \in 1..Len(data) |->
            IF i >= window /\ IsNaN(rsi[i]) THEN Num(50) ELSE rsi[i]]

calculate_rsi(data, window) ==
    LET rs == rsi_rs(data, window)
    IN  [i \in 1..Len(data) |->
            Sub(Num(100), Div(Num(100), Add(Num(1), rs[i])))]

\* Mutant: the histogram is taken as signal_line - macd_line.
calculate_macd_HistogramReversed(data, fast_period, slow_period, signal_period) ==
    LET ema_fast == EwmMean(data, fast_period)
        ema_slow == EwmMean(data, slow_period)
        macd_line == [i \in 1..Len(data) |-> Sub(ema_fast[i], ema_slow[i])]
        signal_line == EwmMean(macd_line, signal_period)
        histogram == [i \in 1..Len(data) |-> Sub(signal_line[i], macd_line[i])]
    IN  <<macd_line, signal_line, histogram>>

calculate_macd(data, fast_period, slow_period, signal_period) ==
    LET ema_fast == EwmMean(data, fast_period)
        ema_slow == EwmMean(data, slow_period)
        macd_line == [i \in 1..Len(data) |-> Sub(ema_fast[i], ema_slow[i])]
        signal_line == EwmMean(macd_line, signal_period)
        histogram == [i \in 1..Len(data) |-> Sub(macd_line[i], signal_line[i])]
    IN  <<macd_line, signal_line, histogram>>

\* Mutant: the middle band is an exponential mean of span `window`.
calculate_bollinger_bands_EmaMiddle(data, window, num_std) ==
    LET middle_band == EwmMean(data, window)
        std == RollingStd(data, window)
        upper_band == [i \in 1..Len(data) |->
                          Add(middle_band[i], Mul(std[i], Num(num_std)))]
        lower_band == [i \in 1..Len(data) |->
                          Sub(middle_band[i], Mul(std[i], Num(num_std)))]
    IN  <<upper_band, middle_band, lower_band>>

\* Mutant: the lower band is one deviation below the mean whatever num_std is.
calculate_bollinger_bands_LowerUnscaled(data, window, num_std) ==
    LET middle_band == RollingMean(data, window)
        std == RollingStd(data, window)
        upper_band == [i \in 1..Len(data) |->
                          Add(middle_band[i], Mul(std[i], Num(num_std)))]
        lower_band == [i \in 1..Len(data) |-> Sub(middle_band[i], std[i])]
    IN  <<upper_band, middle_band, lower_band>>

calculate_bollinger_bands(data, window, num_std) ==
    LET middle_band == RollingMean(data, window)
        std == RollingStd(data, window)
        upper_band == [i \in 1..Len(data) |->
                          Add(middle_band[i], Mul(std[i], Num(num_std)))]
        lower_band == [i \in 1..Len(data) |->
                          Sub(middle_band[i], Mul(std[i], Num(num_std)))]
    IN  <<upper_band, middle_band, lower_band>>

atr_tr(h, l, c) ==
    LET tr1 == [i \in 1..Len(h) |-> Sub(h[i], l[i])]
        tr2 == [i \in 1..Len(h) |-> AbsVal(Sub(h[i], Shift(c)[i]))]
        tr3 == [i \in 1..Len(h) |-> AbsVal(Sub(l[i], Shift(c)[i]))]
    IN  [i \in 1..Len(h) |-> RowMax(tr1[i], tr2[i], tr3[i])]

calculate_atr(h, l, c, window) == RollingMean(atr_tr(h, l, c), window)

\* ------------------------------------------------------------------ state
NoParams ==
    [window |-> 0, num_std |-> 0, fast_period |-> 0, slow_period |-> 0,
     signal_period |-> 0]

SeriesUpTo(n) == UNION {[1..len -> Prices] : len \in 0..n}

\* A call that raises returns nothing.
Raises(result) ==
    \E r \in 1..Len(result) : \E i \in 1..Len(result[r]) : result[r][i].k = "raise"

\* Mutant: the function drops the first (warm-up) row of its arguments in place.
Returned_DropsFirstRowInPlace(name, p, result) ==
    /\ op = "none"
    /\ op' = name
    /\ params' = p
    /\ raised' = Raises(result)
    /\ out' = IF Raises(result) THEN <<>> ELSE result
    /\ close' = IF close = <<>> THEN close ELSE Tail(close)
    /\ high' = IF high = <<>> THEN high ELSE Tail(high)
    /\ low' = IF low = <<>> THEN low ELSE Tail(low)
    /\ UNCHANGED <<loaded, earlier>>
    /\ UNCHANGED data_vars

\* An indicator function returns: its result is new series, its arguments are
\* left as they were (no statement of the functions writes to them).
Returned(name, p, result) ==
    /\ op = "none"
    /\ op' = name
    /\ params' = p
    /\ raised' = Raises(result)
    /\ out' = IF Raises(result) THEN <<>> ELSE result
    /\ UNCHANGED <<close, high, low, loaded, earlier>>
    /\ UNCHANGED data_vars

Init ==
    /\ close \in SeriesUpTo(MaxLen) \cup {ScenarioClose, ConstantClose, GapClose}
    /\ \E spread \in Spreads :
          /\ high = [i \in 1..Len(close) |-> close[i] + spread]
          /\ low = [i \in 1..Len(close) |-> close[i] - spread]
    /\ op = "none"
    /\ params = NoParams
    /\ out = <<>>
    /\ raised = FALSE
    /\ loaded = <<close, high, low>>
    /\ earlier = FALSE
    /\ DataLayerIdle

CallMovingAverage ==
    \E w \in Windows :
        Returned("calculate_moving_average", [NoParams EXCEPT !.window = w],
                 <<calculate_moving_average(ToSeries(close), w)>>)

CallRsi ==
    \E w \in Windows :
        Returned("calculate_rsi", [NoParams EXCEPT !.window = w],
                 <<calculate_rsi(ToSeries(close), w)>>)

CallMacd ==
    \E f \in Spans, sl \in Spans, sg \in Spans :
        /\ Len(close) <= MaxLen
        /\ Returned("calculate_macd",
                    [NoParams EXCEPT !.fast_period = f, !.slow_period = sl,
                                     !.signal_period = sg],
                    calculate_macd(ToSeries(close), f, sl, sg))

CallBollingerBands ==
    \E w \in Windows, n \in StdMultipliers :
        Returned("calculate_bollinger_bands",
                 [NoParams EXCEPT !.window = w, !.num_std = n],
                 calculate_bollinger_bands(ToSeries(close), w, n))

CallAtr ==
    \E w \in Windows :
        Returned("calculate_atr", [NoParams EXCEPT !.window = w],
                 <<calculate_atr(ToSeries(high), ToSeries(low), ToSeries(close), w)>>)

\* The caller stores the returned series as new columns of its frame and is
\* ready for the next call.
AssignColumn ==
    /\ op # "none"
    /\ op' = "none"
    /\ params' = NoParams
    /\ out' = <<>>
    /\ raised' = FALSE
    /\ earlier' = TRUE
    /\ UNCHANGED <<close, high, low, loaded>>
    /\ UNCHANGED data_vars

Next ==
    \/ AssignColumn
    \/ CallMovingAverage
    \/ CallRsi
    \/ CallMacd
    \/ CallBollingerBands
    \/ CallAtr

Spec == Init /\ [][Next]_vars

\* ------------------------------------------------------------ sanity
\* Every returned value is NaN, an infinity or a finite number of the
\* represented form, and a sign of 0 occurs on zeros and infinities only.
TypeOK ==
    /\ op \in {"none", "calculate_moving_average", "calculate_rsi", "calculate_macd",
               "calculate_bollinger_bands", "calculate_atr"}
    /\ raised \in BOOLEAN
    /\ earlier \in BOOLEAN
    /\ \A r \in 1..Len(out) : \A i \in 1..Len(out[r]) :
          /\ out[r][i].k \in {"nan", "inf", "fin"}
          /\ out[r][i].s = 0 => (out[r][i].k = "inf" \/ out[r][i].m = 0)

\* ------------------------------------------------------ data layer: loading
\* The indicator engine is not in use while the data layer is exercised.
IndicatorsIdle ==
    /\ close = <<>> /\ high = <<>> /\ low = <<>>
    /\ op = "none" /\ params = NoParams /\ out = <<>> /\ raised = FALSE
    /\ loaded = <<close, high, low>> /\ earlier = FALSE

\* A cell of a date column that pd.to_datetime cannot parse.
BadDate == 0
\* validate_csv_data reads the first rows of the file only (nrows=5).
ValidatedRows == 5

RowsUpTo(n, values) == UNION {[1..len -> values] : len \in 0..n}

\* A CSV file with all the expected columns.
CsvFile(ds) == [readable |-> TRUE, has_date |-> TRUE, has_prices |-> TRUE, dates |-> ds]

Parsable(ds) == \A i \in 1..Len(ds) : ds[i] # BadDate

\* Ascending order of dates: sort_values('Date') and ORDER BY date.
RECURSIVE InsertByDate(_, _)
InsertByDate(ds, x) ==
    IF ds = <<>> THEN <<x>>
    ELSE IF x < Head(ds) THEN <<x>> \o ds
    ELSE <<Head(ds)>> \o InsertByDate(Tail(ds), x)

RECURSIVE SortByDate(_)
SortByDate(ds) ==
    IF ds = <<>> THEN <<>>
    ELSE InsertByDate(SortByDate(SubSeq(ds, 1, Len(ds) - 1)), ds[Len(ds)])

\* db.query(Stock).filter(Stock.symbol == symbol).first(): the id of the
\* stock, 0 standing for None.
get_stock_by_symbol(d, symbol) ==
    IF \E i \in 1..Len(d.stocks) : d.stocks[i] = symbol
    THEN CHOOSE i \in 1..Len(d.stocks) :
            /\ d.stocks[i] = symbol
            /\ \A j \in 1..(i - 1) : d.stocks[j] # symbol
    ELSE 0

\* The dates of the stock_prices rows of one stock, in insertion order.
RECURSIVE DatesOfStock(_, _)
DatesOfStock(rows, stock_id) ==
    IF rows = <<>> THEN <<>>
    ELSE (IF Head(rows).stock_id = stock_id THEN <<Head(rows).date>> ELSE <<>>)
            \o DatesOfStock(Tail(rows), stock_id)

\* query.order_by(StockPrice.date).all()
get_stock_price_data(d, stock_id) == SortByDate(DatesOfStock(d.stock_prices, stock_id))

\* load_data_from_db: None when the stock or its prices are missing.
load_data_from_db(d, symbol) ==
    LET stock == get_stock_by_symbol(d, symbol)
    IN  IF stock = 0 THEN NoFrame
        ELSE IF get_stock_price_data(d, stock) = <<>> THEN NoFrame
        ELSE Frame(get_stock_price_data(d, stock))

\* validate_csv_data: <<is_valid, message>>; every failure is caught inside.
validate_csv_data(file) ==
    LET n == IF Len(file.dates) < ValidatedRows THEN Len(file.dates) ELSE ValidatedRows
    IN  IF ~file.readable THEN <<FALSE, "Error validating CSV file">>
        ELSE IF ~file.has_date THEN <<FALSE, "Missing 'Date' column in the CSV file.">>
        ELSE IF ~file.has_prices THEN <<FALSE, "Missing required columns">>
        ELSE IF ~Parsable(SubSeq(file.dates, 1, n))
             THEN <<FALSE, "Date column format is invalid">>
        ELSE <<TRUE, "CSV format is valid.">>

\* load_csv_data for a path under sample_data/: the database copy when there
\* is one, else the file read, parsed and sorted by date; None when reading
\* or parsing fails.  A file without date column is returned as read.
load_csv_data(d, symbol, file) ==
    IF load_data_from_db(d, symbol).loaded THEN load_data_from_db(d, symbol)
    ELSE IF ~file.readable THEN NoFrame
    ELSE IF ~file.has_date THEN Frame(file.dates)
    ELSE IF ~Parsable(file.dates) THEN NoFrame
    ELSE Frame(SortByDate(file.dates))

\* data[(data['Date'] >= start) & (data['Date'] <= end)]: the rows of the
\* range, in the order they have in data.
RECURSIVE FilterRange(_, _, _)
FilterRange(ds, start, end) ==
    IF ds = <<>> THEN <<>>
    ELSE (IF Head(ds) >= start /\ Head(ds) <= end THEN <<Head(ds)>> ELSE <<>>)
            \o FilterRange(Tail(ds), start, end)

\* The database after the sample file of a stock was imported (or not).
ImportedRows(ds) == [i \in 1..Len(ds) |-> [stock_id |-> 1, date |-> ds[i]]]

InitSource ==
    /\ IndicatorsIdle
    /\ \E ds \in RowsUpTo(MaxRows, Dates \cup {BadDate}) : csv = CsvFile(ds)
    /\ \E imported \in BOOLEAN :
          db = [EmptyDb EXCEPT !.stocks = <<"AAA">>,
                               !.stock_prices = IF imported /\ Parsable(csv.dates)
                                                THEN ImportedRows(csv.dates) ELSE <<>>]
    /\ app = NoApp
    /\ ret = NoReturn
    /\ sess = <<>>

\* "Use sample/database data": the script calls get_available_stocks, which
\* it has not imported, and stops with a NameError before any data is loaded.
SelectSampleOrDatabase ==
    /\ app = NoApp
    /\ app' = [app EXCEPT !.crashed = TRUE]
    /\ UNCHANGED <<db, csv, ret, sess>>
    /\ UNCHANGED indicator_vars

\* "Upload your own CSV": a valid file is read again and its date column
\* parsed; the rows keep the order of the file.
UploadCsv ==
    /\ app = NoApp
    /\ validate_csv_data(csv)[1]
    /\ app' = IF ~Parsable(csv.dates) THEN [app EXCEPT !.crashed = TRUE]
              ELSE [app EXCEPT !.data = Frame(csv.dates)]
    /\ UNCHANGED <<db, csv, ret, sess>>
    /\ UNCHANGED indicator_vars

\* An invalid upload is reported and no data is loaded.
UploadInvalidCsv ==
    /\ app = NoApp
    /\ ret = NoReturn
    /\ ~validate_csv_data(csv)[1]
    /\ ret' = [call |-> "validate_csv_data", raised |-> FALSE,
               value |-> validate_csv_data(csv), frame |-> NoFrame]
    /\ UNCHANGED <<db, csv, app, sess>>
    /\ UNCHANGED indicator_vars

\* The date range selected in the sidebar is applied to the loaded data; the
\* result is the frame whose columns go to the indicator functions.
FilterDateRange ==
    /\ app.data.loaded
    /\ ~app.filtered.loaded
    /\ \E start \in Dates, end \in Dates :
          app' = [app EXCEPT !.filtered = Frame(FilterRange(app.data.dates, start, end))]
    /\ UNCHANGED <<db, csv, ret, sess>>
    /\ UNCHANGED indicator_vars

CallLoadDataFromDb ==
    /\ ret = NoReturn
    /\ \E symbol \in Symbols :
          ret' = [call |-> "load_data_from_db", raised |-> FALSE,
                  value |-> <<symbol>>, frame |-> load_data_from_db(db, symbol)]
    /\ UNCHANGED <<db, csv, app, sess>>
    /\ UNCHANGED indicator_vars

CallLoadCsvData ==
    /\ ret = NoReturn
    /\ ret' = [call |-> "load_csv_data", raised |-> FALSE,
               value |-> <<"AAA">>, frame |-> load_csv_data(db, "AAA", csv)]
    /\ UNCHANGED <<db, csv, app, sess>>
    /\ UNCHANGED indicator_vars

NextSource ==
    \/ SelectSampleOrDatabase
    \/ UploadCsv
    \/ UploadInvalidCsv
    \/ FilterDateRange
    \/ CallLoadDataFromDb
    \/ CallLoadCsvData

SpecSource == InitSource /\ [][NextSource]_vars

\* ------------------------------------------------------ data layer: storage
\* A frame as the storage functions see it: which columns it has, whether
\* its Date column is of a datetime dtype, and the dates of its rows.
DataFrame(has_date, has_prices, is_datetime, ds) ==
    [has_date |-> has_date, has_prices |-> has_prices,
     is_datetime |-> is_datetime, dates |-> ds]

\* pd.read_csv(file): the Date column comes as text.
ReadCsv(file) == DataFrame(file.has_date, file.has_prices, FALSE, file.dates)

\* The set of dates the table holds for one stock.
ExistingDates(d, stock_id) ==
    {d.stock_prices[i].date : i \in {j \in 1..Len(d.stock_prices) :
                                        d.stock_prices[j].stock_id = stock_id}}

\* The rows of a frame whose date is not in `existing`, in frame order: the
\* loop of save_price_data_from_dataframe tests every row against the dates
\* read before the loop.
RECURSIVE RowsToAdd(_, _, _)
RowsToAdd(ds, stock_id, existing) ==
    IF ds = <<>> THEN <<>>
    ELSE (IF Head(ds) \in existing THEN <<>>
          ELSE <<[stock_id |-> stock_id, date |-> Head(ds)]>>)
            \o RowsToAdd(Tail(ds), stock_id, existing)

\* create_stock: a new row of stocks, committed at once.
create_stock(d, symbol) == [d EXCEPT !.stocks = Append(d.stocks, symbol)]

\* save_price_data_from_dataframe run by one session on its own: raises on a
\* frame without the required columns or with a Date column that cannot be
\* parsed, else adds the rows and returns their number.
save_price_data_from_dataframe(d, stock_id, df) ==
    IF ~(df.has_date /\ df.has_prices) THEN [raised |-> TRUE, db |-> d, count |-> 0]
    ELSE IF ~df.is_datetime /\ ~Parsable(df.dates)
         THEN [raised |-> TRUE, db |-> d, count |-> 0]
    ELSE LET rows == RowsToAdd(df.dates, stock_id, ExistingDates(d, stock_id))
         IN  [raised |-> FALSE,
              db |-> [d EXCEPT !.stock_prices = d.stock_prices \o rows],
              count |-> Len(rows)]

\* save_csv_data_to_db: the whole body is inside try/except Exception.
\* db_ok = FALSE stands for a database that cannot be reached.
save_csv_data_to_db(d, symbol, df, db_ok) ==
    IF ~db_ok
    THEN [raised |-> FALSE, value |-> <<FALSE, "Error saving data">>, db |-> d, count |-> 0]
    ELSE LET d1 == IF get_stock_by_symbol(d, symbol) = 0 THEN create_stock(d, symbol) ELSE d
             saved == save_price_data_from_dataframe(d1, get_stock_by_symbol(d1, symbol), df)
         IN  IF saved.raised
             THEN [raised |-> FALSE, value |-> <<FALSE, "Error saving data">>,
                   db |-> d1, count |-> 0]
             ELSE [raised |-> FALSE, value |-> <<TRUE, "Successfully added records">>,
                   db |-> saved.db, count |-> saved.count]

\* save_stock_data: the column test and pd.to_datetime run outside any try,
\* so a Date column that cannot be parsed raises out of the function.
save_stock_data(d, symbol, df, db_ok) ==
    IF ~df.has_date
    THEN [raised |-> FALSE, value |-> <<FALSE, "Missing 'Date' column in the data">>,
          db |-> d, count |-> 0]
    ELSE IF ~df.is_datetime /\ ~Parsable(df.dates)
         THEN [raised |-> TRUE, value |-> <<>>, db |-> d, count |-> 0]
    ELSE save_csv_data_to_db(d, symbol, [df EXCEPT !.is_datetime = TRUE], db_ok)

\* ------------------------------------------------ data layer: saved analyses
\* Text is a sequence of one-character strings.
DigitChars == <<"0", "1", "2", "3", "4", "5", "6", "7", "8", "9">>

\* str(n) of an integer.
RECURSIVE IntToStr(_)
IntToStr(n) ==
    IF n < 0 THEN <<"-">> \o IntToStr(-n)
    ELSE IF n < 10 THEN <<DigitChars[n + 1]>>
    ELSE IntToStr(n \div 10) \o <<DigitChars[(n % 10) + 1]>>

\* ','.join(map(str, periods))
RECURSIVE JoinComma(_)
JoinComma(periods) ==
    IF periods = <<>> THEN <<>>
    ELSE IF Len(periods) = 1 THEN IntToStr(periods[1])
    ELSE JoinComma(SubSeq(periods, 1, Len(periods) - 1))
            \o <<",">> \o IntToStr(periods[Len(periods)])

\* text.split(','): the pieces between the commas; one empty piece for "".
RECURSIVE SplitComma(_)
SplitComma(text) ==
    IF \A i \in 1..Len(text) : text[i] # ","
    THEN <<text>>
    ELSE LET i == CHOOSE k \in 1..Len(text) :
                      text[k] = "," /\ \A j \in 1..(k - 1) : text[j] # ","
         IN  <<SubSeq(text, 1, i - 1)>> \o SplitComma(SubSeq(text, i + 1, Len(text)))

IsDigits(text) ==
    /\ text # <<>>
    /\ \A i \in 1..Len(text) : \E n \in 1..10 : DigitChars[n] = text[i]

RECURSIVE DigitsValue(_)
DigitsValue(text) ==
    IF text = <<>> THEN 0
    ELSE 10 * DigitsValue(SubSeq(text, 1, Len(text) - 1))
            + (CHOOSE n \in 0..9 : DigitChars[n + 1] = text[Len(text)])

\* int(text): ok = FALSE stands for the ValueError.
ParseInt(text) ==
    IF text # <<>> /\ Head(text) = "-"
    THEN IF IsDigits(Tail(text)) THEN [ok |-> TRUE, val |-> -DigitsValue(Tail(text))]
         ELSE [ok |-> FALSE, val |-> 0]
    ELSE IF IsDigits(text) THEN [ok |-> TRUE, val |-> DigitsValue(text)]
         ELSE [ok |-> FALSE, val |-> 0]

\* The parameters of an analysis: the list of moving-average periods (the key
\* may be absent) and the other settings, which are stored column by column
\* as they are.
AnalysisParams(has_ma_periods, periods, others) ==
    [has_ma_periods |-> has_ma_periods, ma_periods |-> periods, others |-> others]

\* The ma_periods column: NULL or the comma-separated text.
NullText == [null |-> TRUE, text |-> <<>>]

\* save_analysis: one new row of saved_analyses; its id is its position.
save_analysis(d, name, stock_id, p) ==
    [d EXCEPT !.saved_analyses =
        Append(d.saved_analyses,
               [name |-> name, stock_id |-> stock_id,
                ma_periods |-> IF p.has_ma_periods
                               THEN [null |-> FALSE, text |-> JoinComma(p.ma_periods)]
                               ELSE NullText,
                others |-> p.others])]

\* save_analysis_config: <<success, message>> with the new id in the message.
save_analysis_config(d, name, symbol, p, db_ok) ==
    IF ~db_ok
    THEN [raised |-> FALSE, value |-> <<FALSE, "Error saving analysis">>, db |-> d, id |-> 0]
    ELSE IF get_stock_by_symbol(d, symbol) = 0
         THEN [raised |-> FALSE, value |-> <<FALSE, "Stock not found in database">>,
               db |-> d, id |-> 0]
    ELSE [raised |-> FALSE, value |-> <<TRUE, "Analysis saved with ID">>,
          db |-> save_analysis(d, name, get_stock_by_symbol(d, symbol), p),
          id |-> Len(d.saved_analyses) + 1]

\* Mutant: the text is split whenever the column is not NULL.
load_ma_periods_SplitsEmptyText(column) ==
    IF column.null THEN [ok |-> TRUE, periods |-> <<>>]
    ELSE LET pieces == SplitComma(column.text)
         IN  IF \A i \in 1..Len(pieces) : ParseInt(pieces[i]).ok
             THEN [ok |-> TRUE, periods |-> [i \in 1..Len(pieces) |-> ParseInt(pieces[i]).val]]
             ELSE [ok |-> FALSE, periods |-> <<>>]

\* [int(x) for x in analysis.ma_periods.split(',')] if analysis.ma_periods
\* else []: NULL and the empty text give the empty list.
load_ma_periods(column) ==
    IF column.null \/ column.text = <<>> THEN [ok |-> TRUE, periods |-> <<>>]
    ELSE LET pieces == SplitComma(column.text)
         IN  IF \A i \in 1..Len(pieces) : ParseInt(pieces[i]).ok
             THEN [ok |-> TRUE, periods |-> [i \in 1..Len(pieces) |-> ParseInt(pieces[i]).val]]
             ELSE [ok |-> FALSE, periods |-> <<>>]

\* load_saved_analysis: (symbol, params), or (None, message) when the
\* analysis or its stock is missing or anything raises inside.
NotLoaded(message) ==
    [raised |-> FALSE, found |-> FALSE, symbol |-> "", message |-> message,
     params |-> AnalysisParams(FALSE, <<>>, 0)]

load_saved_analysis(d, analysis_id, db_ok) ==
    IF ~db_ok THEN NotLoaded("Error loading analysis")
    ELSE IF ~(analysis_id \in 1..Len(d.saved_analyses)) THEN NotLoaded("Analysis not found")
    ELSE LET analysis == d.saved_analyses[analysis_id]
         IN  IF ~(analysis.stock_id \in 1..Len(d.stocks)) THEN NotLoaded("Stock not found")
             ELSE IF ~load_ma_periods(analysis.ma_periods).ok
                  THEN NotLoaded("Error loading analysis")
             ELSE [raised |-> FALSE, found |-> TRUE,
                   symbol |-> d.stocks[analysis.stock_id], message |-> "",
                   params |-> AnalysisParams(TRUE,
                                             load_ma_periods(analysis.ma_periods).periods,
                                             analysis.others)]

\* ------------------------------------- data layer: calls that report failure
\* The settings of an analysis other than ma_periods, as one value.
OtherSettings == {0, 1}
\* Values offered for the moving-average periods.
PeriodValues == {-5, 0, 5, 200}
MaxPeriods == 2

\* A saved analysis whose ma_periods text does not parse (periods saved as 5.5).
UnparsableAnalysis ==
    [name |-> "bad", stock_id |-> 1,
     ma_periods |-> [null |-> FALSE, text |-> <<"5", ".", "5">>], others |-> 0]

InitErrors ==
    /\ IndicatorsIdle
    /\ \E readable \in BOOLEAN, has_date \in BOOLEAN, has_prices \in BOOLEAN :
          \E ds \in RowsUpTo(MaxRows, {1, 2, BadDate}) :
              csv = [readable |-> readable, has_date |-> has_date,
                     has_prices |-> has_prices, dates |-> ds]
    /\ db \in {EmptyDb,
                [EmptyDb EXCEPT !.stocks = <<"AAA">>,
                               !.stock_prices = <<[stock_id |-> 1, date |-> 1]>>,
                               !.saved_analyses = <<UnparsableAnalysis>>]}
    /\ app = NoApp
    /\ ret = NoReturn
    /\ sess = <<>>

CallValidateCsvData ==
    /\ ret = NoReturn
    /\ ret' = [call |-> "validate_csv_data", raised |-> FALSE,
               value |-> validate_csv_data(csv), frame |-> NoFrame]
    /\ UNCHANGED <<db, csv, app, sess>>
    /\ UNCHANGED indicator_vars

\* The frames a caller can make of the file: as read, or with the Date column
\* already converted (possible only when every date parses).
FramesOf(file) ==
    {ReadCsv(file)} \cup
    (IF Parsable(file.dates)
     THEN {DataFrame(file.has_date, file.has_prices, TRUE, file.dates)} ELSE {})

CallSaveStockData ==
    /\ ret = NoReturn
    /\ csv.readable
    /\ \E symbol \in Symbols, df \in FramesOf(csv), db_ok \in BOOLEAN :
          LET r == save_stock_data(db, symbol, df, db_ok)
          IN  /\ ret' = [call |-> "save_stock_data", raised |-> r.raised,
                         value |-> r.value, frame |-> NoFrame]
              /\ db' = r.db
    /\ UNCHANGED <<csv, app, sess>>
    /\ UNCHANGED indicator_vars

CallSaveCsvDataToDb ==
    /\ ret = NoReturn
    /\ csv.readable
    /\ \E symbol \in Symbols, df \in FramesOf(csv), db_ok \in BOOLEAN :
          LET r == save_csv_data_to_db(db, symbol, df, db_ok)
          IN  /\ ret' = [call |-> "save_csv_data_to_db", raised |-> r.raised,
                         value |-> r.value, frame |-> NoFrame]
              /\ db' = r.db
    /\ UNCHANGED <<csv, app, sess>>
    /\ UNCHANGED indicator_vars

CallSaveAnalysisConfig ==
    /\ ret = NoReturn
    /\ \E symbol \in Symbols, has \in BOOLEAN, db_ok \in BOOLEAN :
          \E periods \in RowsUpTo(MaxPeriods, PeriodValues), others \in OtherSettings :
              LET r == save_analysis_config(db, "saved", symbol,
                                            AnalysisParams(has, periods, others), db_ok)
              IN  /\ ret' = [call |-> "save_analysis_config", raised |-> r.raised,
                             value |-> r.value, frame |-> NoFrame]
                  /\ db' = r.db
    /\ UNCHANGED <<csv, app, sess>>
    /\ UNCHANGED indicator_vars

CallLoadSavedAnalysis ==
    /\ ret = NoReturn
    /\ \E analysis_id \in 1..2, db_ok \in BOOLEAN :
          LET r == load_saved_analysis(db, analysis_id, db_ok)
          IN  ret' = [call |-> "load_saved_analysis", raised |-> r.raised,
                      value |-> <<r.found, r.message>>, frame |-> NoFrame]
    /\ UNCHANGED <<db, csv, app, sess>>
    /\ UNCHANGED indicator_vars

NextErrors ==
    \/ CallValidateCsvData
    \/ CallSaveStockData
    \/ CallSaveCsvDataToDb
    \/ CallSaveAnalysisConfig
    \/ CallLoadSavedAnalysis

SpecErrors == InitErrors /\ [][NextErrors]_vars

\* --------------------------------------- data layer: sessions saving prices
\* Sessions that may be open at the same time, and calls of
\* save_price_data_from_dataframe started in all.
NumSessions == 2
MaxSaves == 2

Sessions == 1..NumSessions
\* The Date columns of the frames saved (a date may occur on two rows).
SavedFrames == RowsUpTo(2, {1, 2})

IdleSession == [pc |-> "idle", stock_id |-> 0, pending |-> <<>>, records_added |-> 0]

InitPrices ==
    /\ IndicatorsIdle
    /\ db = [EmptyDb EXCEPT !.stocks = <<"AAA", "BBB">>]
    /\ csv = NoCsv
    /\ app = NoApp
    /\ ret = NoReturn
    /\ sess = [saves |-> 0, of |-> [s \in Sessions |-> IdleSession]]

\* Lines 131-167: the session reads the dates the table holds for the stock
\* (committed rows only: the other sessions' pending rows are not visible),
\* then adds to its own pending rows every row of the frame whose date was
\* not among them.  Nothing of this is visible to other sessions yet.
BeginSave(s) ==
    /\ sess.of[s].pc = "idle"
    /\ sess.saves < MaxSaves
    /\ \E stock_id \in 1..Len(db.stocks), ds \in SavedFrames :
          LET rows == RowsToAdd(ds, stock_id, ExistingDates(db, stock_id))
          IN  sess' = [saves |-> sess.saves + 1,
                       of |-> [sess.of EXCEPT ![s] =
                                 [pc |-> "commit", stock_id |-> stock_id,
                                  pending |-> rows, records_added |-> Len(rows)]]]
    /\ UNCHANGED <<db, csv, app, ret>>
    /\ UNCHANGED indicator_vars

\* Lines 169-173: commit when something was added (the table has no unique
\* constraint on (stock_id, date), so the commit goes through) and return
\* records_added.
CommitSave(s) ==
    /\ sess.of[s].pc = "commit"
    /\ db' = IF sess.of[s].records_added > 0
             THEN [db EXCEPT !.stock_prices = db.stock_prices \o sess.of[s].pending]
             ELSE db
    /\ ret' = [call |-> "save_price_data_from_dataframe", raised |-> FALSE,
               value |-> <<sess.of[s].records_added>>, frame |-> NoFrame,
               inserted |-> Len(db'.stock_prices) - Len(db.stock_prices)]
    /\ sess' = [sess EXCEPT !.of[s] = IdleSession]
    /\ UNCHANGED <<csv, app>>
    /\ UNCHANGED indicator_vars

NextPrices == \E s \in Sessions : BeginSave(s) \/ CommitSave(s)

SpecPrices == InitPrices /\ [][NextPrices]_vars

\* ------------------------------------ data layer: saving and loading analyses
\* An analysis saved earlier for the stock AAA.
EarlierAnalysis ==
    [name |-> "earlier", stock_id |-> 1,
     ma_periods |-> [null |-> FALSE, text |-> JoinComma(<<20, 50>>)], others |-> 1]

InitAnalysis ==
    /\ IndicatorsIdle
    /\ db \in {[EmptyDb EXCEPT !.stocks = <<"AAA">>, !.saved_analyses = rows] :
                  rows \in {<<>>, <<EarlierAnalysis>>, <<UnparsableAnalysis>>}}
    /\ csv = NoCsv
    /\ app = NoApp
    /\ ret = NoReturn
    /\ sess = <<>>

\* save_analysis_config(name, symbol, params); what was passed and the rows
\* held before the call are kept with the return value.
SaveAnalysisConfig ==
    /\ ret = NoReturn
    /\ \E symbol \in Symbols, has \in BOOLEAN, db_ok \in BOOLEAN :
          \E periods \in RowsUpTo(MaxPeriods, PeriodValues), others \in OtherSettings :
              LET p == AnalysisParams(has, periods, others)
                  r == save_analysis_config(db, "saved", symbol, p, db_ok)
              IN  /\ ret' = [call |-> "save_analysis_config", raised |-> r.raised,
                             value |-> r.value, frame |-> NoFrame, id |-> r.id,
                             symbol |-> symbol, params |-> p,
                             rows_before |-> db.saved_analyses]
                  /\ db' = r.db
    /\ UNCHANGED <<csv, app, sess>>
    /\ UNCHANGED indicator_vars

\* load_saved_analysis of the id the save has just returned.
LoadReturnedAnalysis ==
    /\ ret.call = "save_analysis_config"
    /\ ret.value[1]
    /\ \E db_ok \in BOOLEAN :
          LET r == load_saved_analysis(db, ret.id, db_ok)
          IN  ret' = [call |-> "load_saved_analysis", raised |-> r.raised,
                      value |-> <<r.found, r.message>>, frame |-> NoFrame,
                      id |-> ret.id, symbol |-> r.symbol, params |-> r.params,
                      after_save |-> TRUE, db_ok |-> db_ok,
                      saved_symbol |-> ret.symbol, saved_params |-> ret.params]
    /\ UNCHANGED <<db, csv, app, sess>>
    /\ UNCHANGED indicator_vars

\* load_saved_analysis of any id, saved earlier or not.
LoadAnalysisById ==
    /\ ret = NoReturn
    /\ \E analysis_id \in 1..2, db_ok \in BOOLEAN :
          LET r == load_saved_analysis(db, analysis_id, db_ok)
          IN  ret' = [call |-> "load_saved_analysis", raised |-> r.raised,
                      value |-> <<r.found, r.message>>, frame |-> NoFrame,
                      id |-> analysis_id, symbol |-> r.symbol, params |-> r.params,
                      after_save |-> FALSE, db_ok |-> db_ok,
                      saved_symbol |-> "", saved_params |-> r.params]
    /\ UNCHANGED <<db, csv, app, sess>>
    /\ UNCHANGED indicator_vars

NextAnalysis ==
    \/ SaveAnalysisConfig
    \/ LoadReturnedAnalysis
    \/ LoadAnalysisById

SpecAnalysis == InitAnalysis /\ [][NextAnalysis]_vars

\* ------------------------------------------------------------ properties
\* Index i of the model is position i-1 of the documentation (sequences start
\* at 1 here), so "i >= window-1" reads  i >= window  below.

\* Plain integer sums over the input prices, independent of the float model.
RECURSIVE IntSum(_, _, _)
IntSum(xs, lo, hi) == IF lo > hi THEN 0 ELSE IntSum(xs, lo, hi - 1) + xs[hi]

Pos(n) == IF n > 0 THEN n ELSE 0

\* Sum of the price rises (falls) close[j] - close[j-1] over the positions j of
\* the window ending at i; position 1 has no predecessor and counts as no change.
RECURSIVE GainSum(_, _, _)
GainSum(xs, lo, hi) ==
    IF lo > hi THEN 0
    ELSE GainSum(xs, lo, hi - 1) + (IF hi = 1 THEN 0 ELSE Pos(xs[hi] - xs[hi - 1]))

RECURSIVE LossSum(_, _, _)
LossSum(xs, lo, hi) ==
    IF lo > hi THEN 0
    ELSE LossSum(xs, lo, hi - 1) + (IF hi = 1 THEN 0 ELSE Pos(xs[hi - 1] - xs[hi]))

\* The finite rational x equals the fraction num/den (den > 0).
EqualsFraction(x, num, den) ==
    /\ x.k = "fin" /\ x.c = 0
    /\ x.s * x.m * den = num * x.d

AllNaN(xs) == \A i \in 1..Len(xs) : IsNaN(xs[i])

\* C1: calculate_moving_average returns one entry per input position; entry i
\* is the arithmetic mean of the last `window` prices once that many exist and
\* the "no value" marker before; window 1 returns the input unchanged, and the
\* documented scenario gives 11 at index 2 and 12 at index 9 with window 3.
C1_MovingAverageIsWindowMean ==
    op = "calculate_moving_average" =>
        LET w == params.window
            ma == out[1]
        IN  /\ ~raised
            /\ Len(out) = 1
            /\ Len(ma) = Len(close)
            /\ \A i \in 1..Len(close) :
                  IF i >= w
                  THEN EqualsFraction(ma[i], IntSum(close, i - w + 1, i), w)
                  ELSE IsNaN(ma[i])
            /\ (w = 1 => ma = ToSeries(close))
            /\ (close = ScenarioClose /\ w = 3 => ma[3] = Num(11) /\ ma[10] = Num(12))

C1_Witness ==
    /\ op = "calculate_moving_average"
    /\ close = ScenarioClose
    /\ params.window = 3
    /\ IsNaN(out[1][2])
    /\ out[1][3] = Num(11)

\* C2 as stated: with window >= series length (equality included) the rolling
\* indicators return only "no value" markers and raise nothing.
C2_Original_AllNaNFromWindowEqualLength ==
    (op \in {"calculate_moving_average", "calculate_rsi",
             "calculate_bollinger_bands", "calculate_atr"}
       /\ params.window >= Len(close)) =>
        /\ ~raised
        /\ \A r \in 1..Len(out) : AllNaN(out[r])

\* C2 amended: with window > series length (strictly) every output of the
\* moving average, RSI, Bollinger bands and ATR has the length of the input and
\* holds only "no value" markers, and nothing is raised.
C2_AllNaNWhenWindowExceedsLength ==
    (op \in {"calculate_moving_average", "calculate_rsi",
             "calculate_bollinger_bands", "calculate_atr"}
       /\ params.window > Len(close)) =>
        /\ ~raised
        /\ Len(out) = (IF op = "calculate_bollinger_bands" THEN 3 ELSE 1)
        /\ \A r \in 1..Len(out) : Len(out[r]) = Len(close) /\ AllNaN(out[r])

C2_Witness ==
    /\ op = "calculate_atr"
    /\ Len(close) = 2
    /\ params.window = 3
    /\ Len(out[1]) = 2
    /\ AllNaN(out[1])

\* True when no price changes inside the window ending at position i.
FlatWindow(xs, w, i) ==
    \A j \in (i - w + 1)..i : j > 1 => xs[j] = xs[j - 1]

\* C3 as stated: RSI is "no value" at positions 0 .. window-2 and defined at
\* every position from window-1 on.
C3_Original_DefinedFromWindowMinus1 ==
    op = "calculate_rsi" =>
        \A i \in 1..Len(close) : IsNaN(out[1][i]) <=> i < params.window

\* C3 amended: RSI is "no value" at positions 0 .. window-2; a position from
\* window-1 on holds a value exactly when some price changes inside its
\* window, and is "no value" when the window is flat.
C3_RsiDefinedUnlessFlat ==
    op = "calculate_rsi" =>
        \A i \in 1..Len(close) :
            IsNaN(out[1][i]) <=> (i < params.window \/ FlatWindow(close, params.window, i))

C3_Witness ==
    /\ op = "calculate_rsi"
    /\ params.window = 2
    /\ Len(close) = 4
    /\ IsNaN(out[1][1])
    /\ ~IsNaN(out[1][2])
    /\ ~IsNaN(out[1][3])
    /\ FlatWindow(close, 2, 4) /\ IsNaN(out[1][4])

\* C4 as stated: the first `window` positions (0 .. window-1) of the RSI are
\* "no value" for every series.
C4_Original_FirstWindowPositionsNaN ==
    op = "calculate_rsi" =>
        \A i \in 1..Len(close) : i <= params.window => IsNaN(out[1][i])

\* C4 amended: only the first window-1 positions (0 .. window-2) are "no value"
\* for every series.  The undefined first difference is replaced by 0 in gain
\* and loss, so position window-1 already averages a full window and is "no
\* value" only when the first `window` prices are all equal.
C4_RsiPrefixIsWindowMinus1 ==
    op = "calculate_rsi" =>
        LET w == params.window
            data == ToSeries(close)
        IN  /\ \A i \in 1..Len(close) : i < w => IsNaN(out[1][i])
            /\ Len(close) >= 1 =>
                  /\ IsNaN(rsi_delta(data)[1])
                  /\ IsZero(rsi_gain(data)[1])
                  /\ IsZero(rsi_loss(data)[1])
            /\ Len(close) >= w =>
                  /\ ~IsNaN(rsi_avg_gain(data, w)[w])
                  /\ ~IsNaN(rsi_avg_loss(data, w)[w])
                  /\ IsNaN(out[1][w]) <=> (\A j \in 1..w : close[j] = close[1])

C4_Witness ==
    /\ op = "calculate_rsi"
    /\ params.window = 3
    /\ Len(close) >= 3
    /\ IsNaN(out[1][2])
    /\ ~IsNaN(out[1][3])

\* True when no price falls inside the window ending at position i.
NoFallInWindow(xs, w, i) ==
    \A j \in (i - w + 1)..i : j > 1 => xs[j] >= xs[j - 1]

\* C5 as stated: wherever no delta of the trailing window is negative (a window
\* with no price change included), avg_loss is 0 and the RSI is exactly 100.
\* Only windows whose deltas all exist (i > window-1) are taken, the reading
\* most favourable to the statement.
C5_Original_NoFallGives100 ==
    op = "calculate_rsi" =>
        \A i \in 1..Len(close) :
            (i > params.window /\ NoFallInWindow(close, params.window, i)) =>
                /\ IsZero(rsi_avg_loss(ToSeries(close), params.window)[i])
                /\ out[1][i] = Num(100)

\* C5 amended: wherever no delta of the trailing window is negative, avg_loss
\* is 0; the RSI is exactly 100 when at least one delta of the window is
\* positive, and "no value" when the window has no price change at all.  (At
\* position window-1 the missing first delta counts as no change.)
C5_NoFallGives100UnlessFlat ==
    op = "calculate_rsi" =>
        \A i \in 1..Len(close) :
            (i >= params.window /\ NoFallInWindow(close, params.window, i)) =>
                /\ IsZero(rsi_avg_loss(ToSeries(close), params.window)[i])
                /\ IF FlatWindow(close, params.window, i)
                   THEN IsNaN(out[1][i])
                   ELSE out[1][i] = Num(100)

C5_Witness ==
    /\ op = "calculate_rsi"
    /\ params.window = 2
    /\ Len(close) = 4
    /\ NoFallInWindow(close, 2, 3) /\ ~FlatWindow(close, 2, 3) /\ out[1][3] = Num(100)
    /\ NoFallInWindow(close, 2, 4) /\ FlatWindow(close, 2, 4) /\ IsNaN(out[1][4])

\* C6: on a constant series calculate_rsi returns "no value" at every position
\* for every window (0/0 resolves to undefined, never to 100, 50 or 0).
C6_ConstantSeriesAllNaN ==
    (op = "calculate_rsi" /\ \A i \in 1..Len(close) : close[i] = close[1]) =>
        /\ Len(out[1]) = Len(close)
        /\ AllNaN(out[1])

C6_Witness ==
    /\ op = "calculate_rsi"
    /\ close = ConstantClose
    /\ params.window = 3
    /\ Len(out[1]) = 20
    /\ IsNaN(out[1][20])

\* C7: every defined RSI value lies between 0 and 100.
C7_RsiBounded ==
    op = "calculate_rsi" =>
        \A i \in 1..Len(close) :
            ~IsNaN(out[1][i]) =>
                /\ IsRational(out[1][i])
                /\ ~Lt(out[1][i], Num(0))
                /\ ~Gt(out[1][i], Num(100))

C7_Witness ==
    /\ op = "calculate_rsi"
    /\ \E i \in 1..Len(close) : Gt(out[1][i], Num(0)) /\ Lt(out[1][i], Num(100))
    /\ \E i \in 1..Len(close) : out[1][i] = Num(100)
    /\ \E i \in 1..Len(close) : IsZero(out[1][i])

\* C8: at every position i >= window-1 whose window holds a price fall
\* (avg_loss > 0), rsi[i] = 100 - 100/(1 + avg_gain/avg_loss), that is
\* 100*G/(G+L) for the sums G and L of max(delta, 0) and max(-delta, 0) over
\* the window (the rolling means are G/window and L/window).
C8_RsiFormula ==
    op = "calculate_rsi" =>
        \A i \in 1..Len(close) :
            LET w == params.window
                G == GainSum(close, i - w + 1, i)
                L == LossSum(close, i - w + 1, i)
            IN  (i >= w /\ L > 0) =>
                    /\ EqualsFraction(rsi_avg_gain(ToSeries(close), w)[i], G, w)
                    /\ EqualsFraction(rsi_avg_loss(ToSeries(close), w)[i], L, w)
                    /\ EqualsFraction(out[1][i], 100 * G, G + L)

C8_Witness ==
    /\ op = "calculate_rsi"
    /\ params.window = 3
    /\ \E i \in 3..Len(close) :
          /\ GainSum(close, i - 2, i) > 0
          /\ LossSum(close, i - 2, i) > 0
          /\ Gt(out[1][i], Num(0)) /\ Lt(out[1][i], Num(100))

\* C9: calculate_rsi raises nothing and returns a full-length output; where
\* avg_loss is zero and avg_gain positive the value is 100.
C9_RsiNeverRaises ==
    op = "calculate_rsi" =>
        /\ ~raised
        /\ Len(out) = 1
        /\ Len(out[1]) = Len(close)
        /\ \A i \in 1..Len(close) :
              (/\ IsZero(rsi_avg_loss(ToSeries(close), params.window)[i])
               /\ Gt(rsi_avg_gain(ToSeries(close), params.window)[i], Num(0))) =>
                  out[1][i] = Num(100)

C9_Witness ==
    /\ op = "calculate_rsi"
    /\ ~raised
    /\ \E i \in 1..Len(close) :
          /\ IsZero(rsi_avg_loss(ToSeries(close), params.window)[i])
          /\ Gt(rsi_avg_gain(ToSeries(close), params.window)[i], Num(0))
          /\ rsi_rs(ToSeries(close), params.window)[i].k = "inf"
          /\ out[1][i] = Num(100)

\* C10 as stated: for every window >= 1 (window 1 included) upper, middle and
\* lower band are "no value" exactly at the positions i < window-1.
C10_Original_BandsShareMeanPrefix ==
    op = "calculate_bollinger_bands" =>
        \A r \in 1..3 : \A i \in 1..Len(close) :
            IsNaN(out[r][i]) <=> i < params.window

\* C10 amended: for every window >= 2 upper, middle and lower band are "no
\* value" exactly at the positions i < window-1 and finite from window-1 on;
\* for window 1 the middle band is defined everywhere while upper and lower
\* are "no value" everywhere (one observation has no sample deviation).
C10_BandsShareMeanPrefixFromWindow2 ==
    op = "calculate_bollinger_bands" =>
        /\ ~raised
        /\ Len(out) = 3
        /\ \A r \in 1..3 : Len(out[r]) = Len(close)
        /\ \A i \in 1..Len(close) :
              /\ IsNaN(out[2][i]) <=> i < params.window
              /\ ~IsNaN(out[2][i]) => IsRational(out[2][i])
              /\ \A r \in {1, 3} :
                    IF params.window >= 2
                    THEN /\ IsNaN(out[r][i]) <=> i < params.window
                         /\ ~IsNaN(out[r][i]) => IsFinite(out[r][i])
                    ELSE IsNaN(out[r][i])

C10_Witness ==
    /\ op = "calculate_bollinger_bands"
    /\ params.window = 2
    /\ Len(close) >= 3
    /\ IsNaN(out[1][1]) /\ IsNaN(out[2][1]) /\ IsNaN(out[3][1])
    /\ IsFinite(out[1][2]) /\ out[1][2].c = 1
    /\ IsFinite(out[3][2]) /\ out[3][2].c = -1
    /\ IsRational(out[2][2])

\* Integer form of the non-adjusted exponential mean of an integer series:
\* ema[i] = EmaNum(xs, span, i) / (span + 1)^(i - 1), from ema[1] = xs[1] and
\* (span + 1) * ema[i] = 2 * xs[i] + (span - 1) * ema[i-1].
RECURSIVE IntPow(_, _)
IntPow(b, e) == IF e = 0 THEN 1 ELSE b * IntPow(b, e - 1)

RECURSIVE EmaNum(_, _, _)
EmaNum(xs, span, i) ==
    IF i = 1 THEN xs[1]
    ELSE (span - 1) * EmaNum(xs, span, i - 1) + 2 * xs[i] * IntPow(span + 1, i - 2)

\* y follows yprev and x by one step of the recursion with alpha = 2/(span+1):
\* (span + 1) * y = 2 * x + (span - 1) * yprev, in cross-multiplied integers.
EmaStep(y, yprev, x, span) ==
    /\ IsRational(y) /\ IsRational(yprev) /\ IsRational(x)
    /\ (span + 1) * (y.s * y.m) * yprev.d * x.d
          = 2 * (x.s * x.m) * y.d * yprev.d + (span - 1) * (yprev.s * yprev.m) * y.d * x.d

\* C11: calculate_macd returns macd_line = EMA(close, fast) - EMA(close, slow)
\* and signal_line = EMA(macd_line, signal), every EMA being the non-adjusted
\* recursion ema[0] = x[0], ema[i] = alpha*x[i] + (1-alpha)*ema[i-1] with
\* alpha = 2/(span+1).
C11_MacdIsDifferenceOfEmas ==
    op = "calculate_macd" =>
        LET f == params.fast_period
            s == params.slow_period
            g == params.signal_period
        IN  /\ ~raised
            /\ Len(out) = 3
            /\ Len(out[1]) = Len(close) /\ Len(out[2]) = Len(close)
            /\ \A i \in 1..Len(close) :
                  /\ EqualsFraction(out[1][i],
                        EmaNum(close, f, i) * IntPow(s + 1, i - 1)
                          - EmaNum(close, s, i) * IntPow(f + 1, i - 1),
                        IntPow((f + 1) * (s + 1), i - 1))
                  /\ IF i = 1 THEN out[2][1] = out[1][1]
                     ELSE EmaStep(out[2][i], out[2][i - 1], out[1][i], g)

C11_Witness ==
    /\ op = "calculate_macd"
    /\ params.fast_period = 1 /\ params.slow_period = 2 /\ params.signal_period = 2
    /\ Len(close) >= 3
    /\ close[1] = 1 /\ close[2] = 2
    /\ out[1][2] = Fin(1, 1, 3)
    /\ out[2][2] = Fin(1, 2, 9)

\* C12: for every non-empty series and every periods the three outputs of
\* calculate_macd are defined (finite) at every index from 0 on, with no
\* warm-up gap, and each exponential mean starts at the first value of its
\* input: the two means of close at close[0], the signal line at macd_line[0].
C12_MacdDefinedFromIndex0 ==
    (op = "calculate_macd" /\ Len(close) >= 1) =>
        /\ ~raised
        /\ Len(out) = 3
        /\ \A r \in 1..3 :
              /\ Len(out[r]) = Len(close)
              /\ \A i \in 1..Len(close) : IsRational(out[r][i])
        /\ EwmMean(ToSeries(close), params.fast_period)[1] = Num(close[1])
        /\ EwmMean(ToSeries(close), params.slow_period)[1] = Num(close[1])
        /\ IsZero(out[1][1])
        /\ out[2][1] = out[1][1]
        /\ IsZero(out[3][1])

C12_Witness ==
    /\ op = "calculate_macd"
    /\ params.fast_period = 2 /\ params.slow_period = 1 /\ params.signal_period = 2
    /\ Len(close) >= 2
    /\ close[1] = 2 /\ close[2] = 1
    /\ IsZero(out[1][1]) /\ IsZero(out[2][1]) /\ IsZero(out[3][1])
    /\ out[1][2] = Fin(1, 1, 3)
    /\ out[3][2] = Fin(1, 1, 9)

\* h = a - b for three rationals, in cross-multiplied integers.
IsDifference(h, a, b) ==
    /\ IsRational(h) /\ IsRational(a) /\ IsRational(b)
    /\ (h.s * h.m) * a.d * b.d = ((a.s * a.m) * b.d - (b.s * b.m) * a.d) * h.d

\* C13: at every index the histogram returned by calculate_macd is the
\* returned macd_line minus the returned signal_line.
C13_HistogramIsMacdMinusSignal ==
    op = "calculate_macd" =>
        /\ Len(out) = 3
        /\ Len(out[3]) = Len(close)
        /\ \A i \in 1..Len(close) : IsDifference(out[3][i], out[1][i], out[2][i])

C13_Witness ==
    /\ op = "calculate_macd"
    /\ params.fast_period = 1 /\ params.slow_period = 2 /\ params.signal_period = 2
    /\ Len(close) = MaxLen
    /\ close[1] = 1 /\ close[2] = 2
    /\ out[1][2] = Fin(1, 1, 3)
    /\ out[2][2] = Fin(1, 2, 9)
    /\ out[3][2] = Fin(1, 1, 9)
    /\ ~IsZero(out[3][MaxLen])

RECURSIVE IntSumSq(_, _, _)
IntSumSq(xs, lo, hi) == IF lo > hi THEN 0 ELSE IntSumSq(xs, lo, hi - 1) + xs[hi] * xs[hi]

\* The sample variance of xs[lo..hi] (denominator n - 1) is
\* SampleVarNum / SampleVarDen, for n = hi - lo + 1 >= 2.
SampleVarNum(xs, lo, hi) ==
    (hi - lo + 1) * IntSumSq(xs, lo, hi) - IntSum(xs, lo, hi) * IntSum(xs, lo, hi)

SampleVarDen(xs, lo, hi) == (hi - lo + 1) * (hi - lo)

\* v is finite, not negative, and v * v = num / den.
SquareEquals(v, num, den) ==
    /\ v.k = "fin"
    /\ IF v.c = 0
       THEN (v.m = 0 \/ v.s = 1) /\ v.m * v.m * den = num * v.d * v.d
       ELSE v.m = 0 /\ v.c > 0 /\ v.c * v.c * v.rm * den = num * v.rd

\* C14: the rolling deviation of calculate_bollinger_bands is the sample
\* standard deviation (denominator window-1) of close[i-window+1..i], and at
\* every defined position the distance from the middle band to either band is
\* num_std times that deviation.
C14_BandHalfWidthIsSampleDeviation ==
    (op = "calculate_bollinger_bands" /\ params.window >= 2) =>
        LET w == params.window
            n == params.num_std
        IN  \A i \in w..Len(close) :
                LET num == SampleVarNum(close, i - w + 1, i)
                    den == SampleVarDen(close, i - w + 1, i)
                IN  /\ SquareEquals(RollingStd(ToSeries(close), w)[i], num, den)
                    /\ SquareEquals(Sub(out[1][i], out[2][i]), n * n * num, den)
                    /\ SquareEquals(Sub(out[2][i], out[3][i]), n * n * num, den)

C14_Witness ==
    /\ op = "calculate_bollinger_bands"
    /\ params.window = 2 /\ params.num_std = 2
    /\ Len(close) >= 3
    /\ close[1] = 1 /\ close[2] = 2 /\ close[3] = 2
    /\ Sub(out[1][2], out[2][2]) = WithSurd(Fin(1, 0, 1), 1, 2, 1)
    /\ IsZero(Sub(out[1][3], out[2][3]))

\* Two finite values are the same number.
SameValue(x, y) == IsFinite(x) /\ IsFinite(y) /\ IsZero(Sub(x, y))

\* C15: at every defined position upper[i] - lower[i] = 2 * num_std * std[i],
\* the bands being upper = middle + num_std*std and lower = middle - num_std*std
\* (in exact arithmetic; rounding of doubles is not modelled).
C15_BandWidthIsTwiceNumStdDeviations ==
    (op = "calculate_bollinger_bands" /\ params.window >= 2) =>
        LET w == params.window
            n == params.num_std
            std == RollingStd(ToSeries(close), w)
        IN  \A i \in w..Len(close) :
                /\ SameValue(Sub(out[1][i], out[3][i]), Mul(Num(2 * n), std[i]))
                /\ SameValue(out[1][i], Add(out[2][i], Mul(Num(n), std[i])))
                /\ SameValue(out[3][i], Sub(out[2][i], Mul(Num(n), std[i])))

C15_Witness ==
    /\ op = "calculate_bollinger_bands"
    /\ params.window = 3 /\ params.num_std = 2
    /\ close = ScenarioClose
    /\ out[2][3] = Num(11)
    /\ out[1][3] = Num(13)
    /\ out[3][3] = Num(9)
    /\ Sub(out[1][3], out[3][3]) = Num(4)

\* C16: the middle band returned by calculate_bollinger_bands(close, window, .)
\* is calculate_moving_average(close, window): the same value at every
\* position and "no value" at the same positions.
C16_MiddleBandIsMovingAverage ==
    op = "calculate_bollinger_bands" =>
        LET ma == calculate_moving_average(ToSeries(close), params.window)
        IN  /\ Len(out) = 3
            /\ Len(out[2]) = Len(ma)
            /\ \A i \in 1..Len(ma) :
                  /\ IsNaN(out[2][i]) <=> IsNaN(ma[i])
                  /\ out[2][i] = ma[i]

C16_Witness ==
    /\ op = "calculate_bollinger_bands"
    /\ params.window = 3
    /\ close = ScenarioClose
    /\ IsNaN(out[2][2])
    /\ out[2][3] = Num(11)
    /\ calculate_moving_average(ToSeries(close), 3)[10] = Num(12)
    /\ out[2][10] = Num(12)

IntMax(a, b) == IF a >= b THEN a ELSE b

\* The true range of bar i in integers: the bar's range at the first bar, the
\* largest of range and the two distances to the previous close afterwards.
TrueRange(i) ==
    IF i = 1 THEN high[1] - low[1]
    ELSE IntMax(high[i] - low[i],
                IntMax(Abs(high[i] - close[i - 1]), Abs(low[i] - close[i - 1])))

RECURSIVE TrueRangeSum(_, _)
TrueRangeSum(lo, hi) == IF lo > hi THEN 0 ELSE TrueRangeSum(lo, hi - 1) + TrueRange(hi)

\* C17: calculate_atr takes tr[0] = high[0] - low[0] (the undefined previous
\* close is ignored) and tr[i] = max(high[i]-low[i], |high[i]-close[i-1]|,
\* |low[i]-close[i-1]|) for i >= 1, and returns the simple rolling mean of tr
\* over `window`; with high = low = close constant the result is 0 at every
\* i >= window-1.
C17_AtrIsRollingMeanOfTrueRange ==
    op = "calculate_atr" =>
        LET w == params.window
            tr == atr_tr(ToSeries(high), ToSeries(low), ToSeries(close))
        IN  /\ ~raised
            /\ Len(out) = 1
            /\ Len(out[1]) = Len(close)
            /\ \A i \in 1..Len(close) :
                  /\ EqualsFraction(tr[i], TrueRange(i), 1)
                  /\ IF i >= w
                     THEN EqualsFraction(out[1][i], TrueRangeSum(i - w + 1, i), w)
                     ELSE IsNaN(out[1][i])
            /\ ((high = close /\ low = close /\ \A i \in 1..Len(close) : close[i] = close[1])
                   => \A i \in w..Len(close) : IsZero(out[1][i]))

C17_Witness ==
    /\ op = "calculate_atr"
    /\ params.window = 2
    /\ close = GapClose
    /\ high[1] = 11 /\ low[1] = 9
    /\ IsNaN(out[1][1])
    /\ out[1][2] = Num(3)
    /\ out[1][3] = Fin(1, 9, 2)

C17_FlatWitness ==
    /\ op = "calculate_atr"
    /\ params.window = 3
    /\ close = ConstantClose /\ high = close /\ low = close
    /\ IsNaN(out[1][2])
    /\ \A i \in 3..20 : IsZero(out[1][i])

\* What one call returns when it is the only call made on the series cols =
\* <<close, high, low>>.
CallAlone(name, p, cols) ==
    LET result ==
          CASE name = "calculate_moving_average" ->
                 <<calculate_moving_average(ToSeries(cols[1]), p.window)>>
            [] name = "calculate_rsi" ->
                 <<calculate_rsi(ToSeries(cols[1]), p.window)>>
            [] name = "calculate_macd" ->
                 calculate_macd(ToSeries(cols[1]), p.fast_period, p.slow_period,
                                p.signal_period)
            [] name = "calculate_bollinger_bands" ->
                 calculate_bollinger_bands(ToSeries(cols[1]), p.window, p.num_std)
            [] name = "calculate_atr" ->
                 <<calculate_atr(ToSeries(cols[2]), ToSeries(cols[3]),
                                 ToSeries(cols[1]), p.window)>>
    IN  IF Raises(result) THEN <<>> ELSE result

\* C18: whatever calls were made before on the same series, in any order and
\* any number of times, a call of an indicator function returns exactly what
\* the same call returns when it is the only call made on a fresh copy of the
\* series as loaded; in particular a repeated call returns the same output.
C18_CallsDoNotInterfere ==
    op # "none" => out = CallAlone(op, params, loaded)

C18_Witness ==
    /\ earlier
    /\ op = "calculate_rsi"
    /\ params.window = 3
    /\ loaded[1] = ScenarioClose
    /\ out = CallAlone("calculate_rsi", params, loaded)
    /\ IsNaN(out[1][2])
    /\ IsRational(out[1][3])

Prefix(xs, k) == SubSeq(xs, 1, k)

\* C20: every output sequence of every indicator function has exactly the
\* length of the input, for every length including 0 and 1, and is aligned
\* with it: output position i is computed from input positions <= i only, so
\* the call on the series without its last bar returns each output without its
\* last entry (every prefix of a generated series is itself a generated
\* series, hence the same holds for the first k bars, for every k).
C20_OutputsAlignedWithInput ==
    op # "none" =>
        /\ ~raised
        /\ Len(out) \in {1, 3}
        /\ \A r \in 1..Len(out) : Len(out[r]) = Len(close)
        /\ Len(close) >= 1 =>
              LET k == Len(close) - 1
                  first == CallAlone(op, params,
                                     <<Prefix(close, k), Prefix(high, k), Prefix(low, k)>>)
              IN  /\ Len(first) = Len(out)
                  /\ \A r \in 1..Len(out) : first[r] = Prefix(out[r], k)

C20_Witness ==
    /\ op = "calculate_bollinger_bands"
    /\ params.window = 3 /\ params.num_std = 1
    /\ close = GapClose
    /\ Len(out[1]) = 3 /\ Len(out[2]) = 3 /\ Len(out[3]) = 3
    /\ IsNaN(out[2][2])
    /\ IsRational(out[2][3])
    /\ CallAlone(op, params, <<Prefix(close, 2), Prefix(high, 2), Prefix(low, 2)>>)[2]
          = <<NaN, NaN>>

C20_EmptyWitness ==
    /\ op = "calculate_macd"
    /\ close = <<>>
    /\ out = <<<<>>, <<>>, <<>>>>

\* ------------------------------------------------- properties: data layer
IsSortedByDate(ds) == \A i \in 1..(Len(ds) - 1) : ds[i] <= ds[i + 1]

\* C21: whatever the data source (database, sample CSV file, uploaded CSV),
\* the series that reaches the indicator functions is sorted ascending by date.
C21_SeriesSortedAtIndicators ==
    /\ app.filtered.loaded => IsSortedByDate(app.filtered.dates)
    /\ (ret.call \in {"load_data_from_db", "load_csv_data"} /\ ret.frame.loaded)
          => IsSortedByDate(ret.frame.dates)

\* The two loaders of the storage and sample-file sources do return sorted
\* frames; it is the upload branch that hands on the file's own order.
C21_LoadersReturnSorted ==
    (ret.call \in {"load_data_from_db", "load_csv_data"} /\ ret.frame.loaded)
        => IsSortedByDate(ret.frame.dates)

C21_Witness ==
    /\ csv.dates = <<2, 1>>
    /\ app.data = Frame(<<2, 1>>)
    /\ app.filtered = Frame(<<2, 1>>)

PairReturningCalls ==
    {"validate_csv_data", "save_stock_data", "save_csv_data_to_db",
     "save_analysis_config", "load_saved_analysis"}

\* C22: every failure inside validate_csv_data, save_stock_data,
\* save_csv_data_to_db, save_analysis_config or load_saved_analysis (bad file,
\* missing columns, unparsable dates, database failure) comes back as an
\* explicit failure result with a message and never leaves the operation as
\* an exception.
C22_FailuresAreReturnedNotRaised ==
    ret.call \in PairReturningCalls =>
        /\ ~ret.raised
        /\ Len(ret.value) = 2
        /\ ret.value[1] \in BOOLEAN

\* The four operations other than save_stock_data do catch every failure.
C22_OtherCallsCatchEverything ==
    ret.call \in (PairReturningCalls \ {"save_stock_data"}) =>
        /\ ~ret.raised
        /\ Len(ret.value) = 2
        /\ ret.value[1] \in BOOLEAN

C22_Witness ==
    /\ ret.call = "save_stock_data"
    /\ ret.raised
    /\ csv.has_date /\ csv.has_prices
    /\ csv.dates = <<1, BadDate>>

\* No two rows of the table have the same stock and the same date.
OneRowPerStockAndDate(rows) ==
    \A i \in 1..Len(rows) : \A j \in 1..Len(rows) :
        (rows[i].stock_id = rows[j].stock_id /\ rows[i].date = rows[j].date) => i = j

\* C23: after any sequence of save_price_data_from_dataframe calls (any
\* stocks, any frames, a date on two rows of a frame and two sessions saving
\* the same stock at the same time included) stock_prices holds at most one
\* row per (stock_id, date), and the returned count is the number of rows the
\* call inserted.
C23_OneRowPerStockAndDate ==
    /\ OneRowPerStockAndDate(db.stock_prices)
    /\ ret.call = "save_price_data_from_dataframe" => ret.value[1] = ret.inserted

\* The count part of C23 on its own does hold.
C23_CountIsRowsInserted ==
    ret.call = "save_price_data_from_dataframe" => ret.value[1] = ret.inserted

\* One call with a frame that has the same date on two rows.
C23_Witness ==
    /\ sess.saves = 1
    /\ ret.call = "save_price_data_from_dataframe"
    /\ ret.value = <<2>>
    /\ db.stock_prices = <<[stock_id |-> 1, date |-> 1], [stock_id |-> 1, date |-> 1]>>

\* Two sessions that each save one row of the same stock and date.
C23_ConcurrentWitness ==
    /\ sess.saves = 2
    /\ ret.call = "save_price_data_from_dataframe"
    /\ ret.value = <<1>>
    /\ db.stock_prices = <<[stock_id |-> 1, date |-> 1], [stock_id |-> 1, date |-> 1]>>

\* C24: save_analysis_config followed by load_saved_analysis of the returned
\* id gives back the symbol and the parameters, ma_periods being the same list
\* of integers in the same order (the empty list included), for every symbol
\* in the database and every params with all keys present; for a symbol that
\* is not in the database save_analysis_config returns (False, message) and
\* adds no row.
C24_SaveThenLoadRoundTrips ==
    /\ (ret.call = "load_saved_analysis" /\ ret.after_save /\ ret.db_ok
            /\ ret.saved_params.has_ma_periods)
          => /\ ~ret.raised
             /\ ret.value[1]
             /\ ret.symbol = ret.saved_symbol
             /\ Len(ret.params.ma_periods) = Len(ret.saved_params.ma_periods)
             /\ \A i \in 1..Len(ret.saved_params.ma_periods) :
                   ret.params.ma_periods[i] = ret.saved_params.ma_periods[i]
             /\ ret.params.others = ret.saved_params.others
    /\ (ret.call = "save_analysis_config" /\ get_stock_by_symbol(db, ret.symbol) = 0)
          => /\ ~ret.raised
             /\ ret.value[1] = FALSE
             /\ db.saved_analyses = ret.rows_before

C24_Witness ==
    /\ ret.call = "load_saved_analysis"
    /\ ret.after_save /\ ret.db_ok
    /\ ret.id = 2
    /\ ret.saved_params = AnalysisParams(TRUE, <<200, -5>>, 1)
    /\ db.saved_analyses[2].ma_periods.text = <<"2", "0", "0", ",", "-", "5">>
    /\ ret.symbol = "AAA"
    /\ ret.params.ma_periods = <<200, -5>>

C24_EmptyListWitness ==
    /\ ret.call = "load_saved_analysis"
    /\ ret.after_save /\ ret.db_ok
    /\ ret.saved_params = AnalysisParams(TRUE, <<>>, 0)
    /\ db.saved_analyses[ret.id].ma_periods = [null |-> FALSE, text |-> <<>>]
    /\ ret.params.ma_periods = <<>>

C24_MissingSymbolWitness ==
    /\ ret.call = "save_analysis_config"
    /\ ret.symbol = "BBB"
    /\ ret.value[1] = FALSE
    /\ db.saved_analyses = <<EarlierAnalysis>>

====
